---- MODULE Spec2Model ----
(***************************************************************************)
(* Model of the finderly-camera capture / permission / analysis pipeline.  *)
(*                                                                         *)
(*   SpecCamera  CameraScreen driven by the usePermissions hook            *)
(*   SpecReview  PhotoReviewScreen with the ObjectRecognition it renders   *)
(*               (either variant of the component), route params fixed     *)
(*   SpecProps   SpecReview plus changes of the route param photoUri, so   *)
(*               that a mounted ObjectRecognition sees imageBase64 change  *)
(*   SpecButton  SpecReview with the ObjectRecognition variants that call   *)
(*               visionService.analyzeImage, the "Analyze Image" button    *)
(*               variant included                                          *)
(*   SpecService one call of the vision client (VisionService.analyzeImage *)
(*               or recognizeObjectsFromImage) against every reply of the  *)
(*               endpoint                                                  *)
(*   SpecGallery HomeScreen.handlePhotoGallery against every answer of the *)
(*               media-library permission request and of the image picker  *)
(***************************************************************************)
EXTENDS Integers, Sequences, FiniteSets, Bags, TLC

\* ------------------------------------------------------------------------
\* Bounds
\* ------------------------------------------------------------------------
MaxRequestCalls == 2
MaxCaptures == 2

\* JS strings are sequences of tokens; Null is the value no string equals
Null == <<"null">>

\* ------------------------------------------------------------------------
\* State of CameraScreen and of its usePermissions hook
\* ------------------------------------------------------------------------
VARIABLES
  mounted,          \* CameraScreen instance is on screen
  cameraStatus,     \* useState<CameraPermissionStatus>
  queryState,       \* mount effect: "pending" until the status query settles
  requestsInFlight, \* request() calls awaiting Camera.requestCameraPermission
  platformOS,       \* Platform.OS
  hasDevice,        \* useCameraDevice(position) resolves a device
  facing,           \* useState<"back" | "front">
  torch,            \* useState<"on" | "off">
  photoUri,         \* useState<string | null>
  captures,         \* takePhoto calls in flight, oldest first
  captureCount,     \* number of takePhoto calls made so far
  lastCapture,      \* what handleTakePhoto did when takePhoto last settled
  handoff,          \* photoUri passed to navigation.navigate("PhotoReview")
  \* observations of the calls made on the platform
  takePhotoStatuses, \* cameraStatus values at which takePhoto was invoked
  requestCalls,      \* request() invocations
  prompts,           \* Camera.requestCameraPermission invocations
  queries,           \* Camera.getCameraPermissionStatus invocations
  lastRequest,       \* outcome and resulting status of the last request()
  lastQuery,         \* outcome and resulting status of the mount query
  threw,             \* an exception escaped request() or the mount effect
  warnings           \* console.warn / console.error calls of the hook

camVars == <<mounted, cameraStatus, queryState, requestsInFlight, platformOS,
             hasDevice, facing, torch, photoUri, captures, captureCount,
             lastCapture, handoff, takePhotoStatuses, requestCalls, prompts, queries,
             lastRequest, lastQuery, threw, warnings>>

\* ------------------------------------------------------------------------
\* State of PhotoReviewScreen and of the ObjectRecognition it renders
\* ------------------------------------------------------------------------
VARIABLES
  variant,        \* which ObjectRecognition the screen imports:
                  \*   "auto"   visionService.analyzeImage, auto-analyze effect
                  \*   "effect" recognizeObjectsFromImage, fetchObjects effect
                  \*   "button" visionService.analyzeImage, "Analyze Image"
  reviewMounted,  \* PhotoReviewScreen instance is on screen
  routePhotoUri,  \* route.params.photoUri
  showAIAnalysis, \* useState(false)
  imageBase64,    \* useState<string | null>(null)
  isAnalyzing,    \* useState(false) of PhotoReviewScreen
  encStage,       \* handleAIAnalysis: "idle", "fetch", "blob" or "read"
  encUri,         \* photoUri captured by the running handleAIAnalysis
  orIsAnalyzing,  \* ObjectRecognition: useState(false)
  results,        \* ObjectRecognition: useState<any>(null)
  objects,        \* ObjectRecognition (effect): useState<string[]>([])
  labels,         \* ObjectRecognition (effect): useState<string[]>([])
  error,          \* ObjectRecognition: useState<string | null>(null)
  inflight,       \* bag of the vision API requests in flight
  \* observations
  lastAnalysis,   \* annotations of the last response the mounted
                  \* ObjectRecognition instance received
  labelsSeen,     \* a labels list was on screen when a response reached
                  \* the mounted instance
  shownFor,       \* imageBase64 whose response set the state now displayed
  lastSettle      \* how the last request of the mounted instance settled

revVars == <<variant, reviewMounted, routePhotoUri, showAIAnalysis,
             imageBase64, isAnalyzing, encStage, encUri, orIsAnalyzing,
             results, objects, labels, error, inflight, lastAnalysis,
             labelsSeen, shownFor, lastSettle>>

\* ------------------------------------------------------------------------
\* State of one call of the vision client
\* ------------------------------------------------------------------------
VARIABLES
  svcApiKey,   \* VISION_CONFIG.GOOGLE_CLOUD.API_KEY
  svcImage,    \* the imageBase64 argument
  svcReply,    \* what the endpoint answers to the request
  svcCall,     \* the function called: "none", "analyzeImage" or
               \* "recognizeObjectsFromImage"
  svcStage,    \* "idle", "posted", "returned" or "threw"
  svcUrl,      \* first argument of axios.post
  svcContent,  \* requests[0].image.content of the request body
  svcValue,    \* the value the promise resolved with
  svcThrown,   \* message of the Error the promise rejected with
  svcLogs      \* arguments of the console.error calls, oldest first

svcVars == <<svcApiKey, svcImage, svcReply, svcCall, svcStage, svcUrl,
             svcContent, svcValue, svcThrown, svcLogs>>

\* ------------------------------------------------------------------------
\* State of one run of HomeScreen.handlePhotoGallery
\* ------------------------------------------------------------------------
VARIABLES
  galPermissionReply, \* what requestMediaLibraryPermissionsAsync answers
  galPickerReply,     \* what launchImageLibraryAsync answers
  galSheet,           \* the action sheet is visible
  galStage,           \* "idle", "permission", "picker" or "done"
  galPickerLaunches,  \* launchImageLibraryAsync invocations
  galNavigated,       \* photoUri passed to navigation.navigate("PhotoReview")
  galAlert,           \* the Alert.alert shown: "none", "permission", "error"
  galThrew            \* an exception escaped handlePhotoGallery

galVars == <<galPermissionReply, galPickerReply, galSheet, galStage,
             galPickerLaunches, galNavigated, galAlert, galThrew>>

vars == <<camVars, revVars, svcVars, galVars>>

\* the value of a JS expression that has none
Undefined == <<"undefined">>

\* a JSON property that is missing
Missing == [present |-> FALSE, items |-> <<>>]

\* no picker answer
NoPick == [rejected |-> FALSE, canceled |-> TRUE, assets |-> Missing]

\* no reply yet, no value yet
NoReply == [status |-> "none", responses |-> Missing]
NoValue == [labels |-> <<>>, confidence |-> <<>>, objects |-> <<>>,
            text |-> Undefined]

\* ------------------------------------------------------------------------
\* usePermissions + CameraScreen
\* ------------------------------------------------------------------------
PermissionStatus == {"not-determined", "denied", "restricted", "granted"}
Reject == "reject"
PlatformOutcome == PermissionStatus \cup {Reject}
Facing == {"back", "front"}
NoSettle == [outcome |-> "none", status |-> "none", applied |-> FALSE]

\* usePermissions: request(), status stored after the platform answered
RequestStatusFailOpen(outcome, current) ==
  IF outcome = Reject THEN current ELSE outcome

RequestStatusIgnoresGrant(outcome, current) ==
  IF outcome = Reject THEN "denied"
  ELSE IF outcome = "granted" THEN current
  ELSE outcome

RequestStatus(outcome, current) ==
  IF outcome = Reject THEN "denied" ELSE outcome

\* usePermissions: mount effect, status stored after the platform answered
QueryStatusFailDenied(outcome) ==
  IF outcome = Reject THEN "denied" ELSE outcome

QueryStatus(outcome) ==
  IF outcome = Reject THEN "not-determined" ELSE outcome

\* both bodies are a try/catch whose catch block only logs and sets state
HookThrows(outcome) == FALSE

granted == cameraStatus = "granted"
device == hasDevice[facing]

\* CameraScreen render: which of the three returns is taken
CameraViewNoGate(status, dev) ==
  IF ~dev THEN "unavailable" ELSE "camera"

CameraViewDeviceFirst(status, dev) ==
  IF ~dev THEN "unavailable"
  ELSE IF status # "granted" THEN "permission"
  ELSE "camera"

CameraView(status, dev) ==
  IF status # "granted" THEN "permission"
  ELSE IF ~dev THEN "unavailable"
  ELSE "camera"

view == CameraView(cameraStatus, device)

\* photo.path of the n-th capture
PhotoPath(n) == <<"/photo", ToString(n)>>

\* uri built from photo.path
PhotoUriOf(os, path) ==
  IF os = "android" THEN <<"file://">> \o path ELSE path

\* Camera.getCameraPermissionStatus() settles
MountQuerySettles ==
  /\ queryState = "pending"
  /\ \E outcome \in PlatformOutcome :
       /\ queryState' = "done"
       /\ cameraStatus' = IF mounted THEN QueryStatus(outcome) ELSE cameraStatus
       /\ lastQuery' = [outcome |-> outcome, status |-> cameraStatus',
                        applied |-> mounted]
       /\ threw' = (threw \/ HookThrows(outcome))
       /\ warnings' = IF outcome = Reject THEN warnings + 1 ELSE warnings
  /\ UNCHANGED <<mounted, requestsInFlight, platformOS, hasDevice, facing,
                 torch, photoUri, captures, captureCount, handoff,
                 takePhotoStatuses, requestCalls, prompts, queries,
                 lastRequest>>
  /\ UNCHANGED lastCapture
  /\ UNCHANGED <<revVars, svcVars, galVars>>

\* "Grant Permission" pressed: request() runs up to its await
PressGrantPermission ==
  /\ mounted
  /\ view = "permission"
  /\ requestCalls < MaxRequestCalls
  /\ requestCalls' = requestCalls + 1
  /\ prompts' = prompts + 1
  /\ requestsInFlight' = requestsInFlight + 1
  /\ UNCHANGED <<mounted, cameraStatus, queryState, platformOS, hasDevice,
                 facing, torch, photoUri, captures, captureCount, handoff,
                 takePhotoStatuses, queries, lastRequest, lastQuery, threw,
                 warnings>>
  /\ UNCHANGED lastCapture
  /\ UNCHANGED <<revVars, svcVars, galVars>>

\* Camera.requestCameraPermission() settles
RequestSettles ==
  /\ requestsInFlight > 0
  /\ \E outcome \in PlatformOutcome :
       /\ requestsInFlight' = requestsInFlight - 1
       /\ cameraStatus' = IF mounted THEN RequestStatus(outcome, cameraStatus)
                          ELSE cameraStatus
       /\ lastRequest' = [outcome |-> outcome, status |-> cameraStatus',
                          applied |-> mounted]
       /\ threw' = (threw \/ HookThrows(outcome))
       /\ warnings' = IF outcome = Reject THEN warnings + 1 ELSE warnings
  /\ UNCHANGED <<mounted, queryState, platformOS, hasDevice, facing, torch,
                 photoUri, captures, captureCount, handoff, takePhotoStatuses,
                 requestCalls, prompts, queries, lastQuery>>
  /\ UNCHANGED lastCapture
  /\ UNCHANGED <<revVars, svcVars, galVars>>

\* shutter pressed: handleTakePhoto runs up to its await
PressShutter ==
  /\ mounted
  /\ view = "camera"
  /\ captureCount < MaxCaptures
  /\ captureCount' = captureCount + 1
  /\ captures' = Append(captures, PhotoPath(captureCount + 1))
  /\ takePhotoStatuses' = takePhotoStatuses \cup {cameraStatus}
  /\ UNCHANGED <<mounted, cameraStatus, queryState, requestsInFlight,
                 platformOS, hasDevice, facing, torch, photoUri, handoff,
                 requestCalls, prompts, queries, lastRequest, lastQuery,
                 threw, warnings>>
  /\ UNCHANGED lastCapture
  /\ UNCHANGED <<revVars, svcVars, galVars>>

RemoveAt(s, i) == SubSeq(s, 1, i - 1) \o SubSeq(s, i + 1, Len(s))

NoCapture == [outcome |-> "none", warned |-> FALSE, threw |-> FALSE]

\* handleTakePhoto after its await: the try block stores the photo, the
\* catch block only calls console.warn
CaptureCatchSilent(outcome) ==
  [outcome |-> outcome, warned |-> FALSE, threw |-> FALSE]

CaptureCatch(outcome) ==
  [outcome |-> outcome, warned |-> outcome = "failed", threw |-> FALSE]

\* takePhoto resolves with a photo file
TakePhotoResolves ==
  /\ \E i \in 1..Len(captures) :
       /\ captures' = RemoveAt(captures, i)
       /\ photoUri' = IF mounted THEN PhotoUriOf(platformOS, captures[i])
                      ELSE photoUri
  /\ lastCapture' = CaptureCatch("resolved")
  /\ UNCHANGED <<mounted, cameraStatus, queryState, requestsInFlight,
                 platformOS, hasDevice, facing, torch, captureCount, handoff,
                 takePhotoStatuses, requestCalls, prompts, queries,
                 lastRequest, lastQuery, threw, warnings>>
  /\ UNCHANGED <<revVars, svcVars, galVars>>

\* takePhoto throws: caught, console.warn
TakePhotoFails ==
  /\ \E i \in 1..Len(captures) : captures' = RemoveAt(captures, i)
  /\ lastCapture' = CaptureCatch("failed")
  /\ UNCHANGED <<mounted, cameraStatus, queryState, requestsInFlight,
                 platformOS, hasDevice, facing, torch, photoUri, captureCount,
                 handoff, takePhotoStatuses, requestCalls, prompts, queries,
                 lastRequest, lastQuery, threw, warnings>>
  /\ UNCHANGED <<revVars, svcVars, galVars>>

ToggleTorch ==
  /\ mounted
  /\ view = "camera"
  /\ torch' = IF torch = "on" THEN "off" ELSE "on"
  /\ UNCHANGED <<mounted, cameraStatus, queryState, requestsInFlight,
                 platformOS, hasDevice, facing, photoUri, captures,
                 captureCount, handoff, takePhotoStatuses, requestCalls,
                 prompts, queries, lastRequest, lastQuery, threw, warnings>>
  /\ UNCHANGED lastCapture
  /\ UNCHANGED <<revVars, svcVars, galVars>>

Flip ==
  /\ mounted
  /\ view = "camera"
  /\ facing' = IF facing = "back" THEN "front" ELSE "back"
  /\ UNCHANGED <<mounted, cameraStatus, queryState, requestsInFlight,
                 platformOS, hasDevice, torch, photoUri, captures,
                 captureCount, handoff, takePhotoStatuses, requestCalls,
                 prompts, queries, lastRequest, lastQuery, threw, warnings>>
  /\ UNCHANGED lastCapture
  /\ UNCHANGED <<revVars, svcVars, galVars>>

\* "Use Photo" pressed
UsePhoto ==
  /\ mounted
  /\ view = "camera"
  /\ photoUri # Null
  /\ handoff' = photoUri
  /\ UNCHANGED <<mounted, cameraStatus, queryState, requestsInFlight,
                 platformOS, hasDevice, facing, torch, photoUri, captures,
                 captureCount, takePhotoStatuses, requestCalls, prompts,
                 queries, lastRequest, lastQuery, threw, warnings>>
  /\ UNCHANGED lastCapture
  /\ UNCHANGED <<revVars, svcVars, galVars>>

\* "Back" pressed, in the permission view or the camera view
CameraBack ==
  /\ mounted
  /\ view \in {"permission", "camera"}
  /\ mounted' = FALSE
  /\ UNCHANGED <<cameraStatus, queryState, requestsInFlight, platformOS,
                 hasDevice, facing, torch, photoUri, captures, captureCount,
                 handoff, takePhotoStatuses, requestCalls, prompts, queries,
                 lastRequest, lastQuery, threw, warnings>>
  /\ UNCHANGED lastCapture
  /\ UNCHANGED <<revVars, svcVars, galVars>>

\* ------------------------------------------------------------------------
\* PhotoReviewScreen + ObjectRecognition
\* ------------------------------------------------------------------------
MaxInFlight == 2

Photos == {<<"file://empty.jpg">>, <<"file://photo1.jpg">>,
           <<"file://photo2.jpg">>}

\* Base64 text of the bytes stored at a uri
FileBase64(uri) ==
  CASE uri = <<"file://photo1.jpg">> -> <<"QQ==">>
    [] uri = <<"file://photo2.jpg">> -> <<"Qg==">>
    [] OTHER -> <<>>

\* FileReader.readAsDataURL result
DataUrl(uri) == <<"data:image/jpeg;base64", ",">> \o FileBase64(uri)

\* String.prototype.split(',')
RECURSIVE SplitComma(_)
SplitComma(s) ==
  IF \A i \in 1..Len(s) : s[i] # ","
  THEN <<s>>
  ELSE LET k == CHOOSE i \in 1..Len(s) :
                  s[i] = "," /\ \A j \in 1..(i - 1) : s[j] # ","
       IN  <<SubSeq(s, 1, k - 1)>> \o SplitComma(SubSeq(s, k + 1, Len(s)))

\* base64.split(',')[1]
Base64Data(dataUrl) ==
  LET parts == SplitComma(dataUrl)
  IN  IF Len(parts) >= 2 THEN parts[2] ELSE Null

\* imageBase64.replace(/^data:image\/[a-z]+;base64,/, '')
StripDataPrefix(s) ==
  IF Len(s) >= 2 /\ s[1] \in {"data:image/jpeg;base64", "data:image/png;base64"}
     /\ s[2] = ","
  THEN SubSeq(s, 3, Len(s))
  ELSE s

\* JS truthiness of a string | null
Truthy(s) == s # Null /\ s # <<>>

\* the names the endpoint reports for a category, in its order: none, one,
\* or two that do not come in sorted order
ReportedObjects == {<<>>, <<"cup">>, <<"microwave", "cup">>}
ReportedLabels == {<<>>, <<"appliance">>, <<"kitchen", "appliance">>}

\* what the vision endpoint can answer: a transport failure ("neterr"), a
\* rejected API key ("autherr"), a body without responses[0] ("malformed"),
\* or responses[0] carrying the
\* names of localizedObjectAnnotations and labelAnnotations (a missing list
\* and an empty list both map to the empty sequence)
ApiResponses ==
  {[kind |-> k, objectNames |-> <<>>, labelNames |-> <<>>] :
      k \in {"neterr", "autherr", "malformed"}}
  \cup
  {[kind |-> "ok", objectNames |-> o, labelNames |-> l] :
      o \in ReportedObjects, l \in ReportedLabels}

NoResults == [present |-> FALSE, objects |-> <<>>, labels |-> <<>>]
NoAnalysis == [received |-> FALSE, objects |-> <<>>, labels |-> <<>>]
NotSettled == [kind |-> "none", notified |-> FALSE, logged |-> FALSE]

\* axios.post rejects: no answer, or a status outside 2xx
AxiosRejects(resp) == resp.kind \in {"neterr", "autherr"}

\* VisionService.analyzeImage after axios.post settled
AnalyzeImageSwallows(resp) ==
  [threw |-> FALSE,
   value |-> [present |-> TRUE,
              objects |-> resp.objectNames,
              labels |-> resp.labelNames]]

AnalyzeImage(resp) ==
  IF resp.kind # "ok"
  THEN [threw |-> TRUE, value |-> NoResults]
  ELSE [threw |-> FALSE,
        value |-> [present |-> TRUE,
                   objects |-> resp.objectNames,
                   labels |-> resp.labelNames]]

\* recognizeObjectsFromImage after axios.post settled
RecognizeObjectsFromImage(resp) ==
  IF AxiosRejects(resp)
  THEN [present |-> TRUE, objects |-> <<>>, labels |-> <<>>]
  ELSE IF Len(resp.objectNames) > 0
       THEN [present |-> TRUE, objects |-> resp.objectNames, labels |-> <<>>]
       ELSE [present |-> TRUE, objects |-> <<>>, labels |-> resp.labelNames]

FailedToAnalyze == <<"Failed to analyze image. Please try again.">>
NoRecognizable == <<"No recognizable objects found.">>
UnableToProcess == <<"Unable to process image. Try again later.">>

\* ObjectRecognition ("auto") render: the elements on screen
RenderScored(analyzing, res, err) ==
  LET shown == res.present /\ ~analyzing
      useObjects == Len(res.objects) > 0 /\ Len(res.objects) >= Len(res.labels)
  IN  [loading |-> analyzing,
       errorText |-> err,
       objectItems |-> IF shown /\ useObjects THEN res.objects ELSE <<>>,
       noObjectsText |-> shown /\ ~useObjects,
       labelItems |-> IF shown /\ ~useObjects THEN res.labels ELSE <<>>]

RenderBothLists(analyzing, res, err) ==
  LET shown == res.present /\ ~analyzing
  IN  [loading |-> analyzing,
       errorText |-> err,
       objectItems |-> IF shown THEN res.objects ELSE <<>>,
       noObjectsText |-> shown /\ Len(res.objects) = 0,
       labelItems |-> IF shown THEN res.labels ELSE <<>>]

RenderMessageWhenEmpty(analyzing, res, err) ==
  LET shown == res.present /\ ~analyzing
  IN  [loading |-> analyzing,
       errorText |-> err,
       objectItems |-> IF shown THEN res.objects ELSE <<>>,
       noObjectsText |-> shown /\ Len(res.objects) = 0 /\ Len(res.labels) = 0,
       labelItems |-> IF shown /\ Len(res.objects) = 0
                      THEN res.labels ELSE <<>>]

RenderNoFallbackLabels(analyzing, res, err) ==
  LET shown == res.present /\ ~analyzing
  IN  [loading |-> analyzing,
       errorText |-> err,
       objectItems |-> IF shown THEN res.objects ELSE <<>>,
       noObjectsText |-> shown /\ Len(res.objects) = 0,
       labelItems |-> <<>>]

Render(analyzing, res, err) ==
  LET shown == res.present /\ ~analyzing
  IN  [loading |-> analyzing,
       errorText |-> err,
       objectItems |-> IF shown /\ Len(res.objects) > 0
                       THEN res.objects ELSE <<>>,
       noObjectsText |-> shown /\ ~(Len(res.objects) > 0),
       labelItems |-> IF shown /\ ~(Len(res.objects) > 0)
                         /\ Len(res.labels) > 0
                      THEN res.labels ELSE <<>>]

\* ObjectRecognition ("button") render
RenderButton(analyzing, res, err) ==
  [loading |-> analyzing,
   errorText |-> err,
   objectItems |-> IF res.present /\ Len(res.objects) > 0
                   THEN res.objects ELSE <<>>,
   noObjectsText |-> res.present /\ ~(Len(res.objects) > 0),
   labelItems |-> IF res.present /\ ~(Len(res.objects) > 0)
                     /\ Len(res.labels) > 0
                  THEN res.labels ELSE <<>>]

\* ObjectRecognition ("effect") render
RenderEffect(objs, lbls, err) ==
  [loading |-> err = Null /\ Len(objs) = 0 /\ Len(lbls) = 0,
   errorText |-> err,
   objectItems |-> IF err = Null THEN objs ELSE <<>>,
   noObjectsText |-> FALSE,
   labelItems |-> IF err = Null /\ ~(Len(objs) > 0) THEN lbls ELSE <<>>]

\* ObjectRecognition ("effect"): fetchObjects after the await
FetchObjects(r, objs, lbls, err) ==
  IF Len(r.objects) > 0
  THEN [objects |-> r.objects, labels |-> <<>>, error |-> err]
  ELSE IF Len(r.labels) > 0
       THEN [objects |-> <<>>, labels |-> r.labels, error |-> err]
       ELSE [objects |-> objs, labels |-> lbls, error |-> NoRecognizable]

\* ObjectRecognition ("auto"): condition of the auto-analyze effect
AutoEffectFires(img, res, analyzing) ==
  Truthy(img) /\ ~res.present /\ ~analyzing

\* the screen renders <ObjectRecognition/>
ORMountedWhenShown(show, img) == show

ORMountedWhen(show, img) == show /\ Truthy(img)
orMounted == reviewMounted /\ ORMountedWhen(showAIAnalysis, imageBase64)

\* PhotoReviewScreen render: the results panel
PanelOf(show, img) ==
  IF ~show THEN "hidden"
  ELSE IF ~Truthy(img) THEN "preparing"
  ELSE "recognition"

Display ==
  IF variant = "auto" THEN Render(orIsAnalyzing, results, error)
  ELSE IF variant = "button" THEN RenderButton(orIsAnalyzing, results, error)
  ELSE RenderEffect(objects, labels, error)

\* the request sent for the prop img: analyzeImage strips a data-URL prefix
\* from the content, recognizeObjectsFromImage sends the prop as it is
NewRequest(img) ==
  [img |-> img,
   content |-> IF variant = "effect" THEN img ELSE StripDataPrefix(img),
   live |-> TRUE]

\* a request whose component instance was unmounted: its setState calls
\* no longer reach a mounted component
Orphan(req) == [req EXCEPT !.live = FALSE]

orState == <<orIsAnalyzing, results, objects, labels, error, lastAnalysis,
             labelsSeen, shownFor, lastSettle>>

\* which list a response calls for
ModeOf(analysis) ==
  IF ~analysis.received THEN "none"
  ELSE IF Len(analysis.objects) > 0 THEN "objects"
  ELSE IF Len(analysis.labels) > 0 THEN "labels"
  ELSE "empty"

\* the effect with deps [imageBase64] runs for the prop img
RunImageEffect(img, res, analyzing, err) ==
  IF variant = "auto"
  THEN IF AutoEffectFires(img, res, analyzing)
       THEN /\ BagCardinality(inflight) < MaxInFlight
            /\ inflight' = inflight (+) SetToBag({NewRequest(img)})
            /\ orIsAnalyzing' = TRUE
            /\ error' = Null
       ELSE /\ inflight' = inflight
            /\ orIsAnalyzing' = analyzing
            /\ error' = err
  ELSE IF variant = "button"
  THEN /\ inflight' = inflight
       /\ orIsAnalyzing' = analyzing
       /\ error' = err
  ELSE /\ BagCardinality(inflight) < MaxInFlight
       /\ inflight' = inflight (+) SetToBag({NewRequest(img)})
       /\ orIsAnalyzing' = analyzing
       /\ error' = err

\* React commit after the screen state became (show, img)
Commit(show, img) ==
  LET was == ORMountedWhen(showAIAnalysis, imageBase64)
      now == ORMountedWhen(show, img)
  IN  CASE ~was /\ now ->
             /\ RunImageEffect(img, NoResults, FALSE, Null)
             /\ results' = NoResults
             /\ objects' = <<>>
             /\ labels' = <<>>
             /\ lastAnalysis' = NoAnalysis
             /\ labelsSeen' = FALSE
             /\ shownFor' = Null
             /\ lastSettle' = NotSettled
        [] was /\ ~now ->
             /\ inflight' = BagOfAll(Orphan, inflight)
             /\ orIsAnalyzing' = FALSE
             /\ results' = NoResults
             /\ objects' = <<>>
             /\ labels' = <<>>
             /\ error' = Null
             /\ lastAnalysis' = NoAnalysis
             /\ labelsSeen' = FALSE
             /\ shownFor' = Null
             /\ lastSettle' = NotSettled
        [] was /\ now /\ img # imageBase64 ->
             /\ RunImageEffect(img, results, orIsAnalyzing, error)
             /\ UNCHANGED <<results, objects, labels, lastAnalysis, labelsSeen,
                            shownFor, lastSettle>>
        [] OTHER ->
             UNCHANGED <<inflight, orIsAnalyzing, results, objects, labels,
                         error, lastAnalysis, labelsSeen, shownFor,
                         lastSettle>>

\* PhotoReviewScreen mounted with its route params
InitReview ==
  /\ variant \in {"auto", "effect"}
  /\ reviewMounted = TRUE
  /\ routePhotoUri \in Photos
  /\ showAIAnalysis = FALSE
  /\ imageBase64 = Null
  /\ isAnalyzing = FALSE
  /\ encStage = "idle"
  /\ encUri = Null
  /\ orIsAnalyzing = FALSE
  /\ results = NoResults
  /\ objects = <<>>
  /\ labels = <<>>
  /\ error = Null
  /\ inflight = EmptyBag
  /\ lastAnalysis = NoAnalysis
  /\ labelsSeen = FALSE
  /\ shownFor = Null
  /\ lastSettle = NotSettled
  \* no CameraScreen in this specification
  /\ mounted = FALSE
  /\ cameraStatus = "not-determined"
  /\ queryState = "done"
  /\ requestsInFlight = 0
  /\ platformOS = "ios"
  /\ hasDevice = [f \in Facing |-> FALSE]
  /\ facing = "back"
  /\ torch = "off"
  /\ photoUri = Null
  /\ captures = <<>>
  /\ captureCount = 0
  /\ lastCapture = NoCapture
  /\ handoff = Null
  /\ takePhotoStatuses = {}
  /\ requestCalls = 0
  /\ prompts = 0
  /\ queries = 0
  /\ lastRequest = NoSettle
  /\ lastQuery = NoSettle
  /\ threw = FALSE
  /\ warnings = 0
  \* no call of the vision client on its own in this specification
  /\ svcApiKey = <<"YOUR_GOOGLE_CLOUD_VISION_API_KEY_HERE">>
  /\ svcImage = <<>>
  /\ svcReply = NoReply
  /\ svcCall = "none"
  /\ svcStage = "idle"
  /\ svcUrl = <<>>
  /\ svcContent = <<>>
  /\ svcValue = NoValue
  /\ svcThrown = Null
  /\ svcLogs = <<>>
  \* no run of handlePhotoGallery in this specification
  /\ galPermissionReply = "none"
  /\ galPickerReply = NoPick
  /\ galSheet = FALSE
  /\ galStage = "idle"
  /\ galPickerLaunches = 0
  /\ galNavigated = Null
  /\ galAlert = "none"
  /\ galThrew = FALSE

\* "AI Insights" pressed: handleAIAnalysis runs up to await fetch(photoUri)
PressAIInsights ==
  /\ reviewMounted
  /\ ~isAnalyzing
  /\ isAnalyzing' = TRUE
  /\ encStage' = "fetch"
  /\ encUri' = routePhotoUri
  /\ UNCHANGED <<variant, reviewMounted, routePhotoUri, showAIAnalysis,
                 imageBase64, inflight>>
  /\ UNCHANGED orState
  /\ UNCHANGED <<camVars, svcVars, galVars>>

\* fetch(photoUri) settles
FetchSettles ==
  /\ encStage = "fetch"
  /\ \E ok \in BOOLEAN :
       IF ok
       THEN /\ encStage' = "blob"
            /\ UNCHANGED <<isAnalyzing, encUri>>
       ELSE /\ encStage' = "idle"
            /\ encUri' = Null
            /\ isAnalyzing' = IF reviewMounted THEN FALSE ELSE isAnalyzing
  /\ UNCHANGED <<variant, reviewMounted, routePhotoUri, showAIAnalysis,
                 imageBase64, inflight>>
  /\ UNCHANGED orState
  /\ UNCHANGED <<camVars, svcVars, galVars>>

\* response.blob() settles; on success reader.readAsDataURL(blob) starts
BlobSettles ==
  /\ encStage = "blob"
  /\ \E ok \in BOOLEAN :
       IF ok
       THEN /\ encStage' = "read"
            /\ UNCHANGED <<isAnalyzing, encUri>>
       ELSE /\ encStage' = "idle"
            /\ encUri' = Null
            /\ isAnalyzing' = IF reviewMounted THEN FALSE ELSE isAnalyzing
  /\ UNCHANGED <<variant, reviewMounted, routePhotoUri, showAIAnalysis,
                 imageBase64, inflight>>
  /\ UNCHANGED orState
  /\ UNCHANGED <<camVars, svcVars, galVars>>

\* reader.onload
ReaderLoads ==
  /\ encStage = "read"
  /\ encStage' = "idle"
  /\ encUri' = Null
  /\ IF reviewMounted
     THEN LET base64Data == Base64Data(DataUrl(encUri))
          IN  /\ imageBase64' = base64Data
              /\ showAIAnalysis' = TRUE
              /\ isAnalyzing' = FALSE
              /\ Commit(TRUE, base64Data)
     ELSE /\ UNCHANGED <<imageBase64, showAIAnalysis, isAnalyzing, inflight>>
          /\ UNCHANGED orState
  /\ UNCHANGED <<variant, reviewMounted, routePhotoUri>>
  /\ UNCHANGED <<camVars, svcVars, galVars>>

\* the FileReader fails: no onerror handler is installed
ReaderErrors ==
  /\ encStage = "read"
  /\ encStage' = "idle"
  /\ encUri' = Null
  /\ UNCHANGED <<variant, reviewMounted, routePhotoUri, showAIAnalysis,
                 imageBase64, isAnalyzing, inflight>>
  /\ UNCHANGED orState
  /\ UNCHANGED <<camVars, svcVars, galVars>>

\* "Hide Results" pressed
HideResults ==
  /\ reviewMounted
  /\ showAIAnalysis
  /\ showAIAnalysis' = FALSE
  /\ Commit(FALSE, imageBase64)
  /\ UNCHANGED <<variant, reviewMounted, routePhotoUri, imageBase64,
                 isAnalyzing, encStage, encUri>>
  /\ UNCHANGED <<camVars, svcVars, galVars>>

\* the vision request of the mounted ObjectRecognition settles with the
\* response resp
AnalysisSettles ==
  \E req \in BagToSet(inflight), resp \in ApiResponses :
    /\ req.live
    /\ reviewMounted
    /\ inflight' = inflight (-) SetToBag({req})
    /\ labelsSeen' = (labelsSeen \/ Len(Display.labelItems) > 0)
    /\ IF variant # "effect"
       THEN LET out == AnalyzeImage(resp) IN
            /\ orIsAnalyzing' = FALSE
            /\ results' = IF out.threw THEN results ELSE out.value
            /\ error' = IF out.threw THEN FailedToAnalyze ELSE error
            /\ lastAnalysis' = IF out.threw THEN NoAnalysis
                               ELSE [received |-> TRUE,
                                     objects |-> resp.objectNames,
                                     labels |-> resp.labelNames]
            /\ shownFor' = IF out.threw THEN shownFor ELSE req.img
            /\ lastSettle' = [kind |-> resp.kind, notified |-> ~out.threw,
                               logged |-> out.threw]
            /\ UNCHANGED <<objects, labels>>
       ELSE LET r == RecognizeObjectsFromImage(resp)
                st == FetchObjects(r, objects, labels, error) IN
            /\ objects' = st.objects
            /\ labels' = st.labels
            /\ error' = st.error
            /\ lastAnalysis' = IF resp.kind = "ok"
                               THEN [received |-> TRUE,
                                     objects |-> resp.objectNames,
                                     labels |-> resp.labelNames]
                               ELSE NoAnalysis
            /\ shownFor' = IF Len(r.objects) > 0 \/ Len(r.labels) > 0
                           THEN req.img ELSE shownFor
            /\ lastSettle' = [kind |-> resp.kind, notified |-> FALSE,
                               logged |-> AxiosRejects(resp)]
            /\ UNCHANGED <<orIsAnalyzing, results>>
    /\ UNCHANGED <<variant, reviewMounted, routePhotoUri, showAIAnalysis,
                   imageBase64, isAnalyzing, encStage, encUri>>
    /\ UNCHANGED <<camVars, svcVars, galVars>>

\* "Analyze Image" pressed in the button-triggered ObjectRecognition:
\* analyzeImage runs up to await visionService.analyzeImage
PressAnalyzeImage ==
  /\ variant = "button"
  /\ orMounted
  /\ ~orIsAnalyzing
  /\ BagCardinality(inflight) < MaxInFlight
  /\ inflight' = inflight (+) SetToBag({NewRequest(imageBase64)})
  /\ orIsAnalyzing' = TRUE
  /\ error' = Null
  /\ UNCHANGED <<results, objects, labels, lastAnalysis, labelsSeen, shownFor,
                 lastSettle>>
  /\ UNCHANGED <<variant, reviewMounted, routePhotoUri, showAIAnalysis,
                 imageBase64, isAnalyzing, encStage, encUri>>
  /\ UNCHANGED <<camVars, svcVars, galVars>>

\* the vision request of an unmounted ObjectRecognition settles: whatever
\* the response, its setState calls change nothing
OrphanSettles ==
  \E req \in BagToSet(inflight) :
    /\ ~req.live
    /\ inflight' = inflight (-) SetToBag({req})
    /\ UNCHANGED <<variant, reviewMounted, routePhotoUri, showAIAnalysis,
                   imageBase64, isAnalyzing, encStage, encUri>>
    /\ UNCHANGED orState
    /\ UNCHANGED <<camVars, svcVars, galVars>>

\* "Start over" pressed: the screen leaves the stack and the state of the
\* screen and of its ObjectRecognition is discarded with the instances
StartOver ==
  /\ reviewMounted
  /\ reviewMounted' = FALSE
  /\ inflight' = BagOfAll(Orphan, inflight)
  /\ showAIAnalysis' = FALSE
  /\ imageBase64' = Null
  /\ isAnalyzing' = FALSE
  /\ orIsAnalyzing' = FALSE
  /\ results' = NoResults
  /\ objects' = <<>>
  /\ labels' = <<>>
  /\ error' = Null
  /\ lastAnalysis' = NoAnalysis
  /\ labelsSeen' = FALSE
  /\ shownFor' = Null
  /\ lastSettle' = NotSettled
  /\ UNCHANGED <<variant, routePhotoUri, encStage, encUri>>
  /\ UNCHANGED <<camVars, svcVars, galVars>>

\* the navigator re-renders the screen with another route.params.photoUri
RouteParamsChange ==
  /\ reviewMounted
  /\ \E uri \in Photos \ {routePhotoUri} : routePhotoUri' = uri
  /\ UNCHANGED <<variant, reviewMounted, showAIAnalysis, imageBase64,
                 isAnalyzing, encStage, encUri, inflight>>
  /\ UNCHANGED orState
  /\ UNCHANGED <<camVars, svcVars, galVars>>

\* ------------------------------------------------------------------------
\* The vision client: VisionService.analyzeImage, recognizeObjectsFromImage
\* ------------------------------------------------------------------------
MaxAnnotations == 2

ApiKeys == {<<"AIzaSyD-3x4mpl3">>, <<"YOUR_GOOGLE_CLOUD_VISION_API_KEY_HERE">>}
BaseUrl == <<"https://vision.googleapis.com/v1/images:annotate">>

\* `${baseUrl}?key=${apiKey}`
RequestUrl(key) == BaseUrl \o <<"?key=">> \o key

\* the imageBase64 argument, without and with the data-URL prefix
Images == {<<"QQ==">>, <<"data:image/jpeg;base64", ",", "QQ==">>}

\* a JSON property that may be missing
Optional(S) == {Missing} \cup {[present |-> TRUE, items |-> x] : x \in S}

LabelAnnotation(i) ==
  [description |-> <<"label", ToString(i)>>, score |-> 100 - i]
ObjectAnnotation(i) == [name |-> <<"object", ToString(i)>>]
TextAnnotation(i) == [description |-> <<"text", ToString(i)>>]

LabelLists == {[i \in 1..k |-> LabelAnnotation(i)] : k \in 0..MaxAnnotations}
ObjectLists == {[i \in 1..k |-> ObjectAnnotation(i)] : k \in 0..MaxAnnotations}
TextLists == {[i \in 1..k |-> TextAnnotation(i)] : k \in 0..MaxAnnotations}

\* an element of response.data.responses
AnnotateResults ==
  [labelAnnotations : Optional(LabelLists),
   localizedObjectAnnotations : Optional(ObjectLists),
   textAnnotations : Optional(TextLists)]

\* what axios.post can settle with: no answer ("timeout"), a status that
\* rejects the API key ("401", "403"), or a 2xx body whose responses
\* property is missing, empty or holds one result
Replies ==
  {[status |-> st, responses |-> Missing] : st \in {"timeout", "401", "403"}}
  \cup
  {[status |-> "200", responses |-> r] :
      r \in Optional({<<>>} \cup {<<x>> : x \in AnnotateResults})}

\* the error axios.post rejects with: it carries the request config
AxiosError(url, status) ==
  [name |-> "AxiosError",
   message |-> IF status = "timeout" THEN <<"timeout exceeded">>
               ELSE <<"Request failed with status code", status>>,
   configUrl |-> url]

\* reading a property of undefined
TypeError ==
  [name |-> "TypeError",
   message |-> <<"Cannot read properties of undefined">>,
   configUrl |-> <<>>]

Descriptions(a) == [i \in 1..Len(a) |-> a[i].description]
Scores(a) == [i \in 1..Len(a) |-> a[i].score]
Names(a) == [i \in 1..Len(a) |-> a[i].name]

\* analyzeImage: the VisionResponse built from responses[0]
VisionResponseNoDefaults(result) ==
  [labels |-> IF result.labelAnnotations.present
              THEN Descriptions(result.labelAnnotations.items)
              ELSE Undefined,
   confidence |-> IF result.labelAnnotations.present
                  THEN Scores(result.labelAnnotations.items) ELSE Undefined,
   objects |-> IF result.localizedObjectAnnotations.present
               THEN Names(result.localizedObjectAnnotations.items)
               ELSE Undefined,
   text |-> IF result.textAnnotations.present
               /\ Len(result.textAnnotations.items) > 0
            THEN result.textAnnotations.items[1].description
            ELSE Undefined]

VisionResponseOf(result) ==
  [labels |-> IF result.labelAnnotations.present
              THEN Descriptions(result.labelAnnotations.items) ELSE <<>>,
   confidence |-> IF result.labelAnnotations.present
                  THEN Scores(result.labelAnnotations.items) ELSE <<>>,
   objects |-> IF result.localizedObjectAnnotations.present
               THEN Names(result.localizedObjectAnnotations.items) ELSE <<>>,
   text |-> IF result.textAnnotations.present
               /\ Len(result.textAnnotations.items) > 0
            THEN result.textAnnotations.items[1].description
            ELSE Undefined]

\* responses[0] can be read and is an object
HasFirstResponse(reply) ==
  reply.responses.present /\ Len(reply.responses.items) > 0

\* VisionService.analyzeImage once axios.post settled with reply
ServiceAnalyzeImage(reply, url) ==
  IF reply.status = "200" /\ HasFirstResponse(reply)
  THEN [threw |-> FALSE,
        value |-> VisionResponseOf(reply.responses.items[1]),
        message |-> Null,
        logs |-> <<>>]
  ELSE [threw |-> TRUE,
        value |-> NoValue,
        message |-> <<"Failed to analyze image">>,
        logs |-> <<[label |-> <<"Vision API Error:">>,
                    error |-> IF reply.status = "200" THEN TypeError
                              ELSE AxiosError(url, reply.status)]>>]

\* recognizeObjectsFromImage returning the labels next to the objects
ServiceRecognizeObjectsKeepsLabels(reply, url) ==
  IF reply.status # "200"
  THEN [threw |-> FALSE,
        value |-> [objects |-> <<>>, labels |-> <<>>],
        logs |-> <<[label |-> <<"Vision API error:">>,
                    error |-> AxiosError(url, reply.status)]>>]
  ELSE LET has == HasFirstResponse(reply)
           result == reply.responses.items[1]
           objs == IF has /\ result.localizedObjectAnnotations.present
                   THEN Names(result.localizedObjectAnnotations.items)
                   ELSE <<>>
           lbls == IF has /\ result.labelAnnotations.present
                   THEN Descriptions(result.labelAnnotations.items)
                   ELSE <<>>
       IN  [threw |-> FALSE,
            value |-> [objects |-> objs, labels |-> lbls],
            logs |-> <<>>]

\* recognizeObjectsFromImage once axios.post settled with reply
ServiceRecognizeObjects(reply, url) ==
  IF reply.status # "200"
  THEN [threw |-> FALSE,
        value |-> [objects |-> <<>>, labels |-> <<>>],
        logs |-> <<[label |-> <<"Vision API error:">>,
                    error |-> AxiosError(url, reply.status)]>>]
  ELSE LET has == HasFirstResponse(reply)
           result == reply.responses.items[1]
           objs == IF has /\ result.localizedObjectAnnotations.present
                   THEN Names(result.localizedObjectAnnotations.items)
                   ELSE <<>>
           lbls == IF has /\ result.labelAnnotations.present
                   THEN Descriptions(result.labelAnnotations.items)
                   ELSE <<>>
       IN  [threw |-> FALSE,
            value |-> IF Len(objs) > 0
                      THEN [objects |-> objs, labels |-> <<>>]
                      ELSE [objects |-> <<>>, labels |-> lbls],
            logs |-> <<>>]

\* visionService.analyzeImage(imageBase64) runs up to await axios.post
CallAnalyzeImage ==
  /\ svcStage = "idle"
  /\ svcCall' = "analyzeImage"
  /\ svcStage' = "posted"
  /\ svcUrl' = RequestUrl(svcApiKey)
  /\ svcContent' = StripDataPrefix(svcImage)
  /\ UNCHANGED <<svcApiKey, svcImage, svcReply, svcValue, svcThrown, svcLogs>>
  /\ UNCHANGED <<camVars, revVars, galVars>>

\* recognizeObjectsFromImage(imageBase64) runs up to await axios.post
CallRecognizeObjects ==
  /\ svcStage = "idle"
  /\ svcCall' = "recognizeObjectsFromImage"
  /\ svcStage' = "posted"
  /\ svcUrl' = RequestUrl(svcApiKey)
  /\ svcContent' = svcImage
  /\ UNCHANGED <<svcApiKey, svcImage, svcReply, svcValue, svcThrown, svcLogs>>
  /\ UNCHANGED <<camVars, revVars, galVars>>

\* axios.post of analyzeImage settles
AnalyzeImageSettles ==
  /\ svcStage = "posted"
  /\ svcCall = "analyzeImage"
  /\ LET out == ServiceAnalyzeImage(svcReply, svcUrl)
     IN  /\ svcStage' = IF out.threw THEN "threw" ELSE "returned"
         /\ svcValue' = out.value
         /\ svcThrown' = out.message
         /\ svcLogs' = svcLogs \o out.logs
  /\ UNCHANGED <<svcApiKey, svcImage, svcReply, svcCall, svcUrl, svcContent>>
  /\ UNCHANGED <<camVars, revVars, galVars>>

\* axios.post of recognizeObjectsFromImage settles
RecognizeObjectsSettles ==
  /\ svcStage = "posted"
  /\ svcCall = "recognizeObjectsFromImage"
  /\ LET out == ServiceRecognizeObjects(svcReply, svcUrl)
     IN  /\ svcStage' = IF out.threw THEN "threw" ELSE "returned"
         /\ svcValue' = out.value
         /\ svcLogs' = svcLogs \o out.logs
  /\ UNCHANGED <<svcApiKey, svcImage, svcReply, svcCall, svcUrl, svcContent,
                 svcThrown>>
  /\ UNCHANGED <<camVars, revVars, galVars>>

\* ------------------------------------------------------------------------
\* HomeScreen.handlePhotoGallery
\* ------------------------------------------------------------------------
MediaPermissionOutcome == {"granted", "denied", "undetermined", Reject}

AssetUris == {<<"file://gallery1.jpg">>, <<"file://gallery2.jpg">>}
AssetLists ==
  {<<>>} \cup {<<[uri |-> u]>> : u \in AssetUris}
  \cup {<<[uri |-> u], [uri |-> v]>> : u \in AssetUris, v \in AssetUris}

\* what launchImageLibraryAsync can settle with: a rejection, or a result
\* with its canceled flag and its assets (null when missing)
PickerResults ==
  {[rejected |-> TRUE, canceled |-> FALSE, assets |-> Missing]}
  \cup
  [rejected : {FALSE}, canceled : BOOLEAN, assets : Optional(AssetLists)]

\* handlePhotoGallery after the permission request settled
AfterPermission(status) ==
  IF status = Reject THEN [launch |-> FALSE, alert |-> "error"]
  ELSE IF status # "granted" THEN [launch |-> FALSE, alert |-> "permission"]
  ELSE [launch |-> TRUE, alert |-> "none"]

\* handlePhotoGallery after the picker settled
AfterPickerIgnoresCancel(result) ==
  IF result.rejected THEN [navigate |-> Null, alert |-> "error"]
  ELSE IF result.assets.present /\ Len(result.assets.items) > 0
       THEN [navigate |-> result.assets.items[1].uri, alert |-> "none"]
       ELSE [navigate |-> Null, alert |-> "none"]

AfterPicker(result) ==
  IF result.rejected THEN [navigate |-> Null, alert |-> "error"]
  ELSE IF ~result.canceled /\ result.assets.present
          /\ Len(result.assets.items) > 0
       THEN [navigate |-> result.assets.items[1].uri, alert |-> "none"]
       ELSE [navigate |-> Null, alert |-> "none"]

\* the try/catch spans the whole body after hideActionSheet()
GalleryThrows == FALSE

\* "Photo Gallery" chosen in the action sheet: handlePhotoGallery runs up to
\* await requestMediaLibraryPermissionsAsync()
PressPhotoGallery ==
  /\ galStage = "idle"
  /\ galSheet
  /\ galSheet' = FALSE
  /\ galStage' = "permission"
  /\ UNCHANGED <<galPermissionReply, galPickerReply, galPickerLaunches,
                 galNavigated, galAlert, galThrew>>
  /\ UNCHANGED <<camVars, revVars, svcVars>>

\* requestMediaLibraryPermissionsAsync() settles
MediaPermissionSettles ==
  /\ galStage = "permission"
  /\ LET next == AfterPermission(galPermissionReply)
     IN  /\ galStage' = IF next.launch THEN "picker" ELSE "done"
         /\ galPickerLaunches' = IF next.launch THEN galPickerLaunches + 1
                                 ELSE galPickerLaunches
         /\ galAlert' = next.alert
  /\ galThrew' = (galThrew \/ GalleryThrows)
  /\ UNCHANGED <<galPermissionReply, galPickerReply, galSheet, galNavigated>>
  /\ UNCHANGED <<camVars, revVars, svcVars>>

\* launchImageLibraryAsync() settles
PickerSettles ==
  /\ galStage = "picker"
  /\ LET next == AfterPicker(galPickerReply)
     IN  /\ galNavigated' = next.navigate
         /\ galAlert' = next.alert
  /\ galStage' = "done"
  /\ galThrew' = (galThrew \/ GalleryThrows)
  /\ UNCHANGED <<galPermissionReply, galPickerReply, galSheet,
                 galPickerLaunches>>
  /\ UNCHANGED <<camVars, revVars, svcVars>>

\* ------------------------------------------------------------------------
\* Specifications
\* ------------------------------------------------------------------------
\* CameraScreen mounted, usePermissions has started its status query
InitCamera ==
  /\ mounted = TRUE
  /\ cameraStatus = "not-determined"
  /\ queryState = "pending"
  /\ requestsInFlight = 0
  /\ platformOS \in {"android", "ios"}
  /\ hasDevice \in [Facing -> BOOLEAN]
  /\ facing = "back"
  /\ torch = "off"
  /\ photoUri = Null
  /\ captures = <<>>
  /\ captureCount = 0
  /\ lastCapture = NoCapture
  /\ handoff = Null
  /\ takePhotoStatuses = {}
  /\ requestCalls = 0
  /\ prompts = 0
  /\ queries = 1
  /\ lastRequest = NoSettle
  /\ lastQuery = NoSettle
  /\ threw = FALSE
  /\ warnings = 0
  \* no PhotoReviewScreen in this specification
  /\ variant = "auto"
  /\ reviewMounted = FALSE
  /\ routePhotoUri = Null
  /\ showAIAnalysis = FALSE
  /\ imageBase64 = Null
  /\ isAnalyzing = FALSE
  /\ encStage = "idle"
  /\ encUri = Null
  /\ orIsAnalyzing = FALSE
  /\ results = NoResults
  /\ objects = <<>>
  /\ labels = <<>>
  /\ error = Null
  /\ inflight = EmptyBag
  /\ lastAnalysis = NoAnalysis
  /\ labelsSeen = FALSE
  /\ shownFor = Null
  /\ lastSettle = NotSettled
  \* no call of the vision client in this specification
  /\ svcApiKey = <<"YOUR_GOOGLE_CLOUD_VISION_API_KEY_HERE">>
  /\ svcImage = <<>>
  /\ svcReply = NoReply
  /\ svcCall = "none"
  /\ svcStage = "idle"
  /\ svcUrl = <<>>
  /\ svcContent = <<>>
  /\ svcValue = NoValue
  /\ svcThrown = Null
  /\ svcLogs = <<>>
  \* no run of handlePhotoGallery in this specification
  /\ galPermissionReply = "none"
  /\ galPickerReply = NoPick
  /\ galSheet = FALSE
  /\ galStage = "idle"
  /\ galPickerLaunches = 0
  /\ galNavigated = Null
  /\ galAlert = "none"
  /\ galThrew = FALSE

NextCamera ==
  \/ MountQuerySettles
  \/ PressGrantPermission
  \/ RequestSettles
  \/ PressShutter
  \/ TakePhotoResolves
  \/ TakePhotoFails
  \/ ToggleTorch
  \/ Flip
  \/ UsePhoto
  \/ CameraBack

NextReview ==
  \/ PressAIInsights
  \/ FetchSettles
  \/ BlobSettles
  \/ ReaderLoads
  \/ ReaderErrors
  \/ HideResults
  \/ AnalysisSettles
  \/ OrphanSettles
  \/ StartOver

SpecCamera == InitCamera /\ [][NextCamera]_vars

SpecReview == InitReview /\ [][NextReview]_vars

NextProps ==
  \/ NextReview
  \/ RouteParamsChange

SpecProps == InitReview /\ [][NextProps]_vars

\* PhotoReviewScreen mounted with an ObjectRecognition that calls
\* visionService.analyzeImage: the auto-analysing one or the one with the
\* "Analyze Image" button
InitButton ==
  /\ variant \in {"auto", "button"}
  /\ reviewMounted = TRUE
  /\ routePhotoUri \in Photos
  /\ showAIAnalysis = FALSE
  /\ imageBase64 = Null
  /\ isAnalyzing = FALSE
  /\ encStage = "idle"
  /\ encUri = Null
  /\ orIsAnalyzing = FALSE
  /\ results = NoResults
  /\ objects = <<>>
  /\ labels = <<>>
  /\ error = Null
  /\ inflight = EmptyBag
  /\ lastAnalysis = NoAnalysis
  /\ labelsSeen = FALSE
  /\ shownFor = Null
  /\ lastSettle = NotSettled
  \* no CameraScreen in this specification
  /\ mounted = FALSE
  /\ cameraStatus = "not-determined"
  /\ queryState = "done"
  /\ requestsInFlight = 0
  /\ platformOS = "ios"
  /\ hasDevice = [f \in Facing |-> FALSE]
  /\ facing = "back"
  /\ torch = "off"
  /\ photoUri = Null
  /\ captures = <<>>
  /\ captureCount = 0
  /\ lastCapture = NoCapture
  /\ handoff = Null
  /\ takePhotoStatuses = {}
  /\ requestCalls = 0
  /\ prompts = 0
  /\ queries = 0
  /\ lastRequest = NoSettle
  /\ lastQuery = NoSettle
  /\ threw = FALSE
  /\ warnings = 0
  \* no call of the vision client on its own in this specification
  /\ svcApiKey = <<"YOUR_GOOGLE_CLOUD_VISION_API_KEY_HERE">>
  /\ svcImage = <<>>
  /\ svcReply = NoReply
  /\ svcCall = "none"
  /\ svcStage = "idle"
  /\ svcUrl = <<>>
  /\ svcContent = <<>>
  /\ svcValue = NoValue
  /\ svcThrown = Null
  /\ svcLogs = <<>>
  \* no run of handlePhotoGallery in this specification
  /\ galPermissionReply = "none"
  /\ galPickerReply = NoPick
  /\ galSheet = FALSE
  /\ galStage = "idle"
  /\ galPickerLaunches = 0
  /\ galNavigated = Null
  /\ galAlert = "none"
  /\ galThrew = FALSE

NextButton ==
  \/ NextReview
  \/ PressAnalyzeImage

SpecButton == InitButton /\ [][NextButton]_vars

\* the client is configured with a key, and is about to be called with an
\* image while the endpoint is about to answer with svcReply
InitService ==
  /\ svcApiKey \in ApiKeys
  /\ svcImage \in Images
  /\ svcReply \in Replies
  /\ svcCall = "none"
  /\ svcStage = "idle"
  /\ svcUrl = <<>>
  /\ svcContent = <<>>
  /\ svcValue = NoValue
  /\ svcThrown = Null
  /\ svcLogs = <<>>
  \* no run of handlePhotoGallery in this specification
  /\ galPermissionReply = "none"
  /\ galPickerReply = NoPick
  /\ galSheet = FALSE
  /\ galStage = "idle"
  /\ galPickerLaunches = 0
  /\ galNavigated = Null
  /\ galAlert = "none"
  /\ galThrew = FALSE
  \* no CameraScreen in this specification
  /\ mounted = FALSE
  /\ cameraStatus = "not-determined"
  /\ queryState = "done"
  /\ requestsInFlight = 0
  /\ platformOS = "ios"
  /\ hasDevice = [f \in Facing |-> FALSE]
  /\ facing = "back"
  /\ torch = "off"
  /\ photoUri = Null
  /\ captures = <<>>
  /\ captureCount = 0
  /\ lastCapture = NoCapture
  /\ handoff = Null
  /\ takePhotoStatuses = {}
  /\ requestCalls = 0
  /\ prompts = 0
  /\ queries = 0
  /\ lastRequest = NoSettle
  /\ lastQuery = NoSettle
  /\ threw = FALSE
  /\ warnings = 0
  \* no PhotoReviewScreen in this specification
  /\ variant = "auto"
  /\ reviewMounted = FALSE
  /\ routePhotoUri = Null
  /\ showAIAnalysis = FALSE
  /\ imageBase64 = Null
  /\ isAnalyzing = FALSE
  /\ encStage = "idle"
  /\ encUri = Null
  /\ orIsAnalyzing = FALSE
  /\ results = NoResults
  /\ objects = <<>>
  /\ labels = <<>>
  /\ error = Null
  /\ inflight = EmptyBag
  /\ lastAnalysis = NoAnalysis
  /\ labelsSeen = FALSE
  /\ shownFor = Null
  /\ lastSettle = NotSettled

NextService ==
  \/ CallAnalyzeImage
  \/ CallRecognizeObjects
  \/ AnalyzeImageSettles
  \/ RecognizeObjectsSettles

SpecService == InitService /\ [][NextService]_vars

\* the action sheet of HomeScreen is open; the platform is about to answer
\* the permission request and the picker with the two replies
InitGallery ==
  /\ galPermissionReply \in MediaPermissionOutcome
  /\ galPickerReply \in PickerResults
  /\ galSheet = TRUE
  /\ galStage = "idle"
  /\ galPickerLaunches = 0
  /\ galNavigated = Null
  /\ galAlert = "none"
  /\ galThrew = FALSE
  \* no call of the vision client in this specification
  /\ svcApiKey = <<"YOUR_GOOGLE_CLOUD_VISION_API_KEY_HERE">>
  /\ svcImage = <<>>
  /\ svcReply = NoReply
  /\ svcCall = "none"
  /\ svcStage = "idle"
  /\ svcUrl = <<>>
  /\ svcContent = <<>>
  /\ svcValue = NoValue
  /\ svcThrown = Null
  /\ svcLogs = <<>>
  \* no CameraScreen in this specification
  /\ mounted = FALSE
  /\ cameraStatus = "not-determined"
  /\ queryState = "done"
  /\ requestsInFlight = 0
  /\ platformOS = "ios"
  /\ hasDevice = [f \in Facing |-> FALSE]
  /\ facing = "back"
  /\ torch = "off"
  /\ photoUri = Null
  /\ captures = <<>>
  /\ captureCount = 0
  /\ lastCapture = NoCapture
  /\ handoff = Null
  /\ takePhotoStatuses = {}
  /\ requestCalls = 0
  /\ prompts = 0
  /\ queries = 0
  /\ lastRequest = NoSettle
  /\ lastQuery = NoSettle
  /\ threw = FALSE
  /\ warnings = 0
  \* no PhotoReviewScreen in this specification
  /\ variant = "auto"
  /\ reviewMounted = FALSE
  /\ routePhotoUri = Null
  /\ showAIAnalysis = FALSE
  /\ imageBase64 = Null
  /\ isAnalyzing = FALSE
  /\ encStage = "idle"
  /\ encUri = Null
  /\ orIsAnalyzing = FALSE
  /\ results = NoResults
  /\ objects = <<>>
  /\ labels = <<>>
  /\ error = Null
  /\ inflight = EmptyBag
  /\ lastAnalysis = NoAnalysis
  /\ labelsSeen = FALSE
  /\ shownFor = Null
  /\ lastSettle = NotSettled

NextGallery ==
  \/ PressPhotoGallery
  \/ MediaPermissionSettles
  \/ PickerSettles

SpecGallery == InitGallery /\ [][NextGallery]_vars

\* ------------------------------------------------------------------------
\* Properties
\* ------------------------------------------------------------------------

\* C1 (SpecCamera): Camera.takePhoto is only ever invoked while cameraStatus
\* is "granted", and for every other status the mounted screen renders the
\* permission view, which has no shutter.
C1_CaptureOnlyWhenGranted ==
  /\ takePhotoStatuses \subseteq {"granted"}
  /\ (mounted /\ cameraStatus # "granted" => view = "permission")

\* a capture was started under "granted" and is still pending after the
\* status was lost again
C1_Witness ==
  /\ "granted" \in takePhotoStatuses
  /\ captures # <<>>
  /\ cameraStatus # "granted"

C3_QueryNeverThrows ==
  /\ (lastQuery.applied /\ lastQuery.outcome = Reject =>
        /\ lastQuery.status = "not-determined"
        /\ warnings >= 1)
  /\ ~threw
  /\ queries = 1
  /\ (requestCalls = 0 => prompts = 0)

\* the platform query failed before any request was made
C3_Witness ==
  /\ lastQuery.applied
  /\ lastQuery.outcome = Reject
  /\ cameraStatus = "not-determined"
  /\ ~granted
  /\ requestCalls = 0
  /\ warnings = 1

C5_NeverBothLists ==
  /\ ~(Len(Display.objectItems) > 0 /\ Len(Display.labelItems) > 0)
  /\ ~(Len(objects) > 0 /\ Len(labels) > 0)

\* the same instance first showed labels and now shows objects
C5_Witness ==
  /\ variant = "effect"
  /\ orMounted
  /\ labelsSeen
  /\ ModeOf(lastAnalysis) = "objects"
  /\ Len(Display.objectItems) > 0

\* the message telling the user that nothing was recognised
NoContentMessage ==
  Display.noObjectsText \/ Display.errorText = NoRecognizable

\* C6 as stated (SpecReview): the message is on screen only when neither
\* objects nor labels are.
C6_MessageOnlyWhenEmpty ==
  (orMounted /\ NoContentMessage) =>
     /\ Len(Display.objectItems) = 0
     /\ Len(Display.labelItems) = 0

\* C6 amended (SpecReview): "Could not recognize object" is on screen
\* exactly when results are shown and objects is empty, so never next to
\* objects, alone when labels is empty too, and above the labels otherwise.
C6_MessageWhenNoObjects ==
  (variant = "auto" /\ orMounted) =>
     /\ (NoContentMessage => Len(Display.objectItems) = 0)
     /\ (lastAnalysis.received =>
           (NoContentMessage <=> Len(lastAnalysis.objects) = 0))
     /\ (Len(Display.labelItems) > 0 => NoContentMessage)

\* the message above a fallback list of labels
C6_Witness ==
  /\ variant = "auto"
  /\ orMounted
  /\ Display.noObjectsText
  /\ Len(Display.labelItems) > 0

\* C7 (SpecReview): the README's results display: objects are shown when
\* there are any, otherwise "Could not recognize object" is shown together
\* with the labels.
C7_ReadmeResultsDisplay ==
  (variant = "auto" /\ orMounted /\ lastAnalysis.received) =>
     IF Len(lastAnalysis.objects) > 0
     THEN Display.objectItems = lastAnalysis.objects
     ELSE /\ Display.objectItems = <<>>
          /\ Display.noObjectsText
          /\ Display.labelItems = lastAnalysis.labels

\* the fallback with two labels
C7_Witness ==
  /\ variant = "auto"
  /\ orMounted
  /\ lastAnalysis.received
  /\ lastAnalysis.objects = <<>>
  /\ Len(lastAnalysis.labels) = 2
  /\ Display.labelItems = lastAnalysis.labels

\* C8 (SpecReview): at most one analysis request is in flight.
C8_SingleRequestInFlight ==
  BagCardinality(inflight) <= 1

LivePending == \E req \in BagToSet(inflight) : req.live

\* C9 (SpecReview): "AI Insights" is disabled while the request of the
\* mounted ObjectRecognition is pending.
C9_DisabledWhilePending ==
  (reviewMounted /\ LivePending) => isAnalyzing

\* C10 (SpecProps): what the display shows of a response belongs to the
\* imageBase64 the component currently has.
C10_StaleResponseDiscarded ==
  (orMounted /\ (Len(Display.objectItems) > 0 \/ Len(Display.labelItems) > 0
                 \/ Display.noObjectsText)) =>
     shownFor = imageBase64

\* the step in which the request of the mounted ObjectRecognition settles
LiveSettles ==
  \E req \in BagToSet(inflight) :
     req.live /\ inflight' = inflight (-) SetToBag({req})

C11_NetworkFailureStep ==
  (variant = "auto" /\ LiveSettles /\ lastSettle'.kind = "neterr") =>
     /\ lastSettle'.logged
     /\ error' = FailedToAnalyze
     /\ Display'.errorText = FailedToAnalyze
     /\ results' = results
     /\ ~results'.present
     /\ Display'.objectItems = <<>>
     /\ Display'.labelItems = <<>>
     /\ ~Display'.noObjectsText
     /\ ~lastSettle'.notified
     /\ ~orIsAnalyzing'
     /\ ~Display'.loading
     /\ UNCHANGED <<routePhotoUri, imageBase64, showAIAnalysis, isAnalyzing,
                    reviewMounted>>

\* C11 (SpecReview): when the request of ObjectRecognition.tsx fails in the
\* network, analyzeImage throws, the component shows "Failed to analyze
\* image. Please try again.", results stays null, onAnalysisComplete is not
\* reached, isAnalyzing is false again, and photoUri, imageBase64 and
\* showAIAnalysis of the screen are unchanged.
C11_NetworkFailure == [][C11_NetworkFailureStep]_vars

\* the failed state after a network failure
C11_Witness ==
  /\ variant = "auto"
  /\ orMounted
  /\ lastSettle.kind = "neterr"
  /\ Display.errorText = FailedToAnalyze
  /\ ~results.present
  /\ ~orIsAnalyzing

\* what the two components show after a network failure
NetworkFailureTexts == {FailedToAnalyze, NoRecognizable}

\* C12 (SpecReview): after the endpoint rejected the API key the component
\* shows a failure that is neither the "try again" message nor any other
\* text it shows for a network failure.
C12_AuthFailureDistinguished ==
  (orMounted /\ lastSettle.kind = "autherr") =>
     /\ Display.errorText # Null
     /\ Display.errorText \notin NetworkFailureTexts

\* C13 (SpecReview): a body without responses[0] gives ObjectRecognition.tsx
\* the empty result (objects = [], labels = []), is logged, and sets no
\* error message.
C13_MalformedAbsorbed ==
  (variant = "auto" /\ orMounted /\ lastSettle.kind = "malformed") =>
     /\ results.present
     /\ results.objects = <<>>
     /\ results.labels = <<>>
     /\ Display.errorText = Null
     /\ lastSettle.logged

\* C14 (SpecService): whenever responses[0] exists, analyzeImage returns,
\* whichever of labelAnnotations, localizedObjectAnnotations and
\* textAnnotations are missing: a missing category gives the empty sequence
\* (labels, confidence, objects) or undefined (text), a present one gives
\* its descriptions, scores and names in order.
C14_MissingCategoriesTolerated ==
  (/\ svcCall = "analyzeImage"
   /\ svcStage \in {"returned", "threw"}
   /\ svcReply.status = "200"
   /\ HasFirstResponse(svcReply)) =>
     LET result == svcReply.responses.items[1]
         lbl == result.labelAnnotations
         obj == result.localizedObjectAnnotations
         txt == result.textAnnotations
     IN  /\ svcStage = "returned"
         /\ svcThrown = Null
         /\ svcLogs = <<>>
         /\ (~lbl.present => svcValue.labels = <<>> /\ svcValue.confidence = <<>>)
         /\ (~obj.present => svcValue.objects = <<>>)
         /\ (~txt.present => svcValue.text = Undefined)
         /\ (lbl.present =>
               /\ Len(svcValue.labels) = Len(lbl.items)
               /\ Len(svcValue.confidence) = Len(lbl.items)
               /\ \A i \in 1..Len(lbl.items) :
                     /\ svcValue.labels[i] = lbl.items[i].description
                     /\ svcValue.confidence[i] = lbl.items[i].score)
         /\ (obj.present =>
               /\ Len(svcValue.objects) = Len(obj.items)
               /\ \A i \in 1..Len(obj.items) :
                     svcValue.objects[i] = obj.items[i].name)

\* analyzeImage returned for a result without any of the three categories
C14_Witness ==
  /\ svcCall = "analyzeImage"
  /\ svcStage = "returned"
  /\ HasFirstResponse(svcReply)
  /\ ~svcReply.responses.items[1].labelAnnotations.present
  /\ ~svcReply.responses.items[1].localizedObjectAnnotations.present
  /\ ~svcReply.responses.items[1].textAnnotations.present
  /\ svcValue = NoValue

\* the strings held by a console.error call
LoggedTokens(entry) ==
  LET all == entry.label \o entry.error.message \o entry.error.configUrl
  IN  {all[i] : i \in 1..Len(all)}

KeyTokens == {svcApiKey[i] : i \in 1..Len(svcApiKey)}

\* C15 (SpecService): neither the message of the error the client throws
\* nor anything it passes to console.error holds the API key.
C15_NoCredentialLeak ==
  /\ \A i \in 1..Len(svcThrown) : svcThrown[i] \notin KeyTokens
  /\ \A n \in 1..Len(svcLogs) : LoggedTokens(svcLogs[n]) \cap KeyTokens = {}

\* the step in which handleAIAnalysis ends for a photoUri that cannot be
\* fetched, or for one whose bytes are empty
EncodingOfBadPhotoEnds ==
  \/ encStage = "fetch" /\ encStage' = "idle"
  \/ encStage = "read" /\ encStage' = "idle" /\ FileBase64(encUri) = <<>>

C16_EncodingFailureStep ==
  (reviewMounted /\ EncodingOfBadPhotoEnds) =>
     /\ imageBase64' = imageBase64
     /\ imageBase64' \notin {<<>>, Undefined}
     /\ inflight' = inflight
     /\ PanelOf(showAIAnalysis', imageBase64') # "preparing"
     /\ ~isAnalyzing'

\* C16 (SpecReview): when the photo cannot be fetched or its bytes are
\* empty, handleAIAnalysis stores no payload, dispatches no analysis, does
\* not leave the results panel in its loading state, and enables
\* "AI Insights" again.
C16_EncodingFailure == [][C16_EncodingFailureStep]_vars

\* C17 (SpecCamera): at most one takePhoto is in flight.
C17_SingleCaptureInFlight ==
  Len(captures) <= 1

C18_Views ==
  mounted =>
     /\ (cameraStatus # "granted" => view = "permission")
     /\ (cameraStatus = "granted" /\ ~device => view = "unavailable")
     /\ (cameraStatus = "granted" /\ device => view = "camera")

C18_UnavailableStep ==
  (mounted /\ view = "unavailable") =>
     /\ captureCount' = captureCount
     /\ Len(captures') <= Len(captures)
     /\ requestCalls' = requestCalls
     /\ prompts' = prompts
     /\ queries' = queries
     /\ facing' = facing
     /\ mounted' = mounted

\* C18 (SpecCamera): with the permission granted and no device for the
\* selected position the screen shows the "unavailable" view, in which no
\* capture, no permission request, no status query and no change of
\* position is started; without the permission it shows the permission
\* view whether or not a device exists.
C18_UnavailableIsTerminal == []C18_Views /\ [][C18_UnavailableStep]_vars

\* the unavailable view after the permission was granted by a request
C18_Witness ==
  /\ mounted
  /\ cameraStatus = "granted"
  /\ ~device
  /\ view = "unavailable"
  /\ lastRequest.outcome = "granted"

\* the step in which a pending takePhoto throws
CaptureFails ==
  Len(captures') < Len(captures) /\ lastCapture'.outcome = "failed"

C19_CaptureFailureStep ==
  CaptureFails =>
     /\ lastCapture'.warned
     /\ ~lastCapture'.threw
     /\ captureCount' = captureCount
     /\ Len(captures') = Len(captures) - 1
     /\ UNCHANGED <<photoUri, torch, facing, mounted, cameraStatus, handoff>>
     /\ view' = view

\* C19 (SpecCamera): when takePhoto throws, handleTakePhoto logs a warning
\* and ends without throwing and without calling takePhoto again; photoUri,
\* torch and facing are unchanged and the screen stays in the view it was
\* in, whose shutter has no disabled state.
C19_CaptureFailure == [][C19_CaptureFailureStep]_vars

\* a capture failed in the camera view while an earlier photo was stored
\* and the torch was on
C19_Witness ==
  /\ mounted
  /\ view = "camera"
  /\ lastCapture.outcome = "failed"
  /\ lastCapture.warned
  /\ photoUri # Null
  /\ torch = "on"

\* the step in which a request made under "not-determined" is granted
RequestGranted ==
  /\ mounted
  /\ cameraStatus = "not-determined"
  /\ requestsInFlight' = requestsInFlight - 1
  /\ lastRequest'.outcome = "granted"

C20_ScenarioAStep ==
  RequestGranted =>
     /\ view = "permission"
     /\ cameraStatus' = "granted"
     /\ lastRequest'.applied
     /\ mounted'
     /\ (device => view' = "camera")

\* C20 (SpecCamera): Scenario A: when a request made under "not-determined"
\* is granted by the platform, cameraStatus becomes "granted" and, if a
\* device resolves, the screen goes from the permission view to the camera
\* view, which holds the shutter.
C20_ScenarioA == [][C20_ScenarioAStep]_vars

\* the camera view reached by the first request, after the mount query
\* had answered "not-determined"
C20_Witness ==
  /\ mounted
  /\ lastQuery.outcome = "not-determined"
  /\ requestCalls = 1
  /\ lastRequest.applied
  /\ lastRequest.outcome = "granted"
  /\ cameraStatus = "granted"
  /\ view = "camera"

C21_StatusChangeStep ==
  (lastRequest.applied /\ cameraStatus' # cameraStatus) =>
     requestsInFlight' = requestsInFlight - 1

\* C21 (SpecCamera): once the result of a request() has been stored,
\* cameraStatus changes only in a step that stores the result of a
\* request(); the mount query settling afterwards leaves it alone.
C21_OnlyRequestMutates == [][C21_StatusChangeStep]_vars

\* the picker returned a selection: not cancelled, at least one asset
PickerSelected ==
  /\ ~galPickerReply.rejected
  /\ ~galPickerReply.canceled
  /\ galPickerReply.assets.present
  /\ Len(galPickerReply.assets.items) > 0

\* the picker is launched only under 'granted', and PhotoReview is entered
\* only with the first asset of a selection
GalleryGuards ==
  /\ (galPickerLaunches > 0 => galPermissionReply = "granted")
  /\ galPickerLaunches <= 1
  /\ (galNavigated # Null =>
        /\ galPickerLaunches = 1
        /\ PickerSelected
        /\ galNavigated = galPickerReply.assets.items[1].uri)
  /\ ~galThrew

\* C22 as stated (SpecGallery): every run that ends without navigating has
\* shown an alert.
C22_EveryOtherOutcomeAlerts ==
  /\ GalleryGuards
  /\ (galStage = "done" /\ galNavigated = Null => galAlert # "none")

\* C22 amended (SpecGallery): the picker is launched only after 'granted'
\* and PhotoReview is entered only with the first asset of a selection; a
\* permission that is not granted and an exception end with an alert and
\* without navigation; a cancelled or empty picker result ends with neither
\* navigation nor alert; nothing is thrown.
C22_GalleryOutcomes ==
  /\ GalleryGuards
  /\ (galStage = "done" =>
        IF galPermissionReply = Reject
        THEN galAlert = "error" /\ galNavigated = Null
        ELSE IF galPermissionReply # "granted"
        THEN galAlert = "permission" /\ galNavigated = Null
        ELSE IF galPickerReply.rejected
        THEN galAlert = "error" /\ galNavigated = Null
        ELSE IF PickerSelected
        THEN galAlert = "none" /\ galNavigated # Null
        ELSE galAlert = "none" /\ galNavigated = Null)

\* the picker was cancelled although it reported assets: no navigation and
\* no alert
C22_Witness ==
  /\ galStage = "done"
  /\ galPermissionReply = "granted"
  /\ ~galPickerReply.rejected
  /\ galPickerReply.canceled
  /\ galPickerReply.assets.present
  /\ Len(galPickerReply.assets.items) = 2
  /\ galNavigated = Null
  /\ galAlert = "none"

\* the step in which reader.onload of a running handleAIAnalysis fires
ReaderLoadStep ==
  /\ reviewMounted
  /\ encStage = "read"
  /\ encStage' = "idle"
  /\ isAnalyzing
  /\ ~isAnalyzing'

C23_RetryStep ==
  (/\ variant = "auto"
   /\ orMounted
   /\ Display.errorText = FailedToAnalyze
   /\ ~LivePending
   /\ ReaderLoadStep) =>
     LivePending'

\* C23 (SpecReview): when ObjectRecognition.tsx shows "Failed to analyze
\* image. Please try again." and "AI Insights" is pressed again for the
\* same photo, the end of the encoding dispatches a new analysis request.
C23_RetryDispatches == [][C23_RetryStep]_vars

\* C24 (SpecReview): whenever no handleAIAnalysis is running, isAnalyzing
\* is false, so "AI Insights" is enabled.
C24_IsAnalyzingReset ==
  (reviewMounted /\ encStage = "idle") => ~isAnalyzing

C25_CapturingStep ==
  captures # <<>> => (torch' = torch /\ facing' = facing)

\* C25 (SpecCamera): while a takePhoto is pending, torch and facing do not
\* change.
C25_TogglesOffWhileCapturing == [][C25_CapturingStep]_vars

DataUrlTokens == {"data:image/jpeg;base64", "data:image/png;base64", ","}

\* C26 (SpecReview): ObjectRecognition is mounted only with a non-empty
\* imageBase64; every request in flight was sent for a non-empty payload
\* and its image content is that payload, free of any data-URL prefix; the
\* request of the mounted component was sent for the completed encoding of
\* the photo of the screen.
C26_EncodeBeforeAnalyze ==
  /\ (orMounted => Truthy(imageBase64))
  /\ (imageBase64 = Null => ~LivePending)
  /\ \A req \in BagToSet(inflight) :
        /\ Truthy(req.img)
        /\ req.content = req.img
        /\ \A i \in 1..Len(req.content) : req.content[i] \notin DataUrlTokens
        /\ (req.live =>
              /\ req.img = imageBase64
              /\ req.img = FileBase64(routePhotoUri))

\* the request of the mounted component is pending with the encoded photo
C26_Witness ==
  /\ orMounted
  /\ encStage = "idle"
  /\ \E req \in BagToSet(inflight) :
        /\ req.live
        /\ req.content = FileBase64(routePhotoUri)
        /\ req.content = <<"QQ==">>

\* C27 (SpecButton): whenever the component shows an error message it
\* shows no results: no objects, no labels, no "Could not recognize object".
C27_ErrorExcludesResults ==
  (orMounted /\ Display.errorText # Null) =>
     /\ Display.objectItems = <<>>
     /\ Display.labelItems = <<>>
     /\ ~Display.noObjectsText

\* position of the shutter press that started the capture a uri came from
\* (0 when there is no photo)
StartedOrder(uri) ==
  IF uri = Null THEN 0
  ELSE CHOOSE n \in 1..captureCount : uri[Len(uri)] = ToString(n)

\* C28 (SpecCamera): the photo of a capture started earlier never replaces
\* the photo of a capture started later, so photoUri (the photo 'Use Photo'
\* hands off) is the latest successful capture's.
C28_LatestCaptureStep ==
  photoUri' # photoUri /\ photoUri' # Null =>
     StartedOrder(photoUri') >= StartedOrder(photoUri)

C28_LatestCaptureWins == [][C28_LatestCaptureStep]_vars

\* C29 (SpecProps): in the effect-driven ObjectRecognition, once the latest
\* completed recognition, made for the current imageBase64, returned objects
\* or labels, the display shows exactly those items.
C29_LatestRecognitionShown ==
  (variant = "effect" /\ orMounted /\ shownFor = imageBase64
     /\ ModeOf(lastAnalysis) \in {"objects", "labels"}) =>
     /\ ModeOf(lastAnalysis) = "objects" =>
           Display.objectItems = lastAnalysis.objects
     /\ ModeOf(lastAnalysis) = "labels" =>
           Display.labelItems = lastAnalysis.labels

\* C30 (SpecService): recognizeObjectsFromImage never rejects and never
\* returns objects and labels that are both non-empty: a failed or
\* unparsable reply gives {objects: [], labels: []}, a reply with at least
\* one object gives its names and labels = [], any other reply gives
\* objects = [] and the labels found.
C30_RecognizeNeverRejects ==
  (svcCall = "recognizeObjectsFromImage" /\ svcStage \in {"returned", "threw"}) =>
     LET ok == svcReply.status = "200" /\ HasFirstResponse(svcReply)
         result == svcReply.responses.items[1]
         obj == result.localizedObjectAnnotations
         lbl == result.labelAnnotations
         found == ok /\ obj.present /\ Len(obj.items) > 0
     IN  /\ svcStage = "returned"
         /\ svcThrown = Null
         /\ ~(Len(svcValue.objects) > 0 /\ Len(svcValue.labels) > 0)
         /\ (~ok => svcValue = [objects |-> <<>>, labels |-> <<>>])
         /\ (found =>
               /\ svcValue.labels = <<>>
               /\ Len(svcValue.objects) = Len(obj.items)
               /\ \A i \in 1..Len(obj.items) :
                     svcValue.objects[i] = obj.items[i].name)
         /\ (ok /\ ~found =>
               /\ svcValue.objects = <<>>
               /\ IF lbl.present
                  THEN /\ Len(svcValue.labels) = Len(lbl.items)
                       /\ \A i \in 1..Len(lbl.items) :
                             svcValue.labels[i] = lbl.items[i].description
                  ELSE svcValue.labels = <<>>)

\* a reply holding both objects and labels was returned as objects only
C30_Witness ==
  /\ svcCall = "recognizeObjectsFromImage"
  /\ svcStage = "returned"
  /\ svcReply.status = "200"
  /\ HasFirstResponse(svcReply)
  /\ svcReply.responses.items[1].localizedObjectAnnotations.present
  /\ Len(svcReply.responses.items[1].localizedObjectAnnotations.items) > 0
  /\ svcReply.responses.items[1].labelAnnotations.present
  /\ Len(svcReply.responses.items[1].labelAnnotations.items) > 0
  /\ Len(svcValue.objects) > 0
  /\ svcValue.labels = <<>>

====
